---- MODULE Spec2Model ----
(***************************************************************************)
(* SCEPTER (scepter.py): concurrent MFA-provider reconnaissance.           *)
(* main() launches one browser, fans out one process_url() coroutine per   *)
(* input URL with asyncio.gather, and renders a table or a JSON mapping.   *)
(* The coroutines run on one event loop: a step of a session is the code   *)
(* between two awaits, so every action below is "an awaited engine call    *)
(* resolves, and the code runs on to the next await".                      *)
(* Line 54 annotates process_url with Tuple, which line 6 does not import; *)
(* the model takes the module as loaded (annotations left unevaluated).    *)
(***************************************************************************)
EXTENDS Integers, Sequences, FiniteSets, TLC

(* ------------------------------ bounds -------------------------------- *)
\* longest input list
MaxUrls == 2
\* largest number of <script src> elements the engine reports for a page
MaxScripts == 2

(* ------------------------ text, as character lists --------------------- *)
Https == <<"h", "t", "t", "p", "s", ":", "/", "/">>

Letters == {"a", "b", "d", "h", "k", "o", "p", "s", "t", "u", "D", "U", "O"}
\* urllib.parse.scheme_chars: letters, digits and "+-."
SchemeChars == Letters \cup {"1", "2", "8", "+", "-", "."}

\* str.lower(), and what re.IGNORECASE does to a literal character
Lower(c) ==
    CASE c = "D" -> "d"
      [] c = "U" -> "u"
      [] c = "O" -> "o"
      [] OTHER -> c

\* index of the first ":" of u, 0 if there is none (str.find(':') + 1)
FindColon(u) ==
    IF \E k \in 1..Len(u) : u[k] = ":"
    THEN CHOOSE k \in 1..Len(u) : u[k] = ":" /\ \A m \in 1..(k - 1) : u[m] # ":"
    ELSE 0

\* urlparse(url).scheme: the text before the first ":" when it starts with a
\* letter and holds scheme characters only, lower-cased; otherwise empty
UrlparseScheme(u) ==
    LET i == FindColon(u) IN
    IF i > 1 /\ u[1] \in Letters /\ \A k \in 1..(i - 1) : u[k] \in SchemeChars
    THEN [k \in 1..(i - 1) |-> Lower(u[k])]
    ELSE <<>>

ensure_url_scheme(u) ==
    IF UrlparseScheme(u) = <<>> THEN Https \o u ELSE u

(* --------------------------- content analysis -------------------------- *)
\* re.search(pattern, text, re.IGNORECASE) for a pattern without
\* metacharacters: the pattern occurs somewhere in the text, whatever the case
ReSearch(pattern, text) ==
    \E s \in 0..(Len(text) - Len(pattern)) :
        \A k \in 1..Len(pattern) : Lower(text[s + k]) = Lower(pattern[k])

\* providers.yaml as loaded into MFA_PROVIDERS: provider -> list of patterns
MFA_PROVIDERS ==
    [Duo  |-> << <<"d", "u", "o", "-", "p">>, <<"d", "u", "o">> >>,
     Okta |-> << <<"O", "k", "t", "a">> >>,
     Otp  |-> << <<"o", "t", "p">> >>]

\* as AnyPatternFrom, with the break outside the if: only the first pattern
\* of a provider is tried
AnyPatternFrom_FirstOnly(patterns, k, content, u) ==
    /\ k <= Len(patterns)
    /\ (ReSearch(patterns[k], content) \/ ReSearch(patterns[k], u))

\* the inner loop of analyze_content from pattern k on: TRUE as soon as one
\* pattern matches the content or the url (the break), FALSE when none does
RECURSIVE AnyPatternFrom(_, _, _, _)
AnyPatternFrom(patterns, k, content, u) ==
    IF k > Len(patterns) THEN FALSE
    ELSE IF ReSearch(patterns[k], content) \/ ReSearch(patterns[k], u) THEN TRUE
    ELSE AnyPatternFrom(patterns, k + 1, content, u)

analyze_content(content, u) ==
    {provider \in DOMAIN MFA_PROVIDERS :
        AnyPatternFrom(MFA_PROVIDERS[provider], 1, content, u)}

\* the outer loop of analyze_content over MFA_PROVIDERS.items(), given as the
\* list of [provider, patterns] in iteration order, from item k on
RECURSIVE AnalyzeFrom(_, _, _, _, _)
AnalyzeFrom(items, k, content, u, found) ==
    IF k > Len(items) THEN found
    ELSE AnalyzeFrom(items, k + 1, content, u,
                     IF AnyPatternFrom(items[k].patterns, 1, content, u)
                     THEN found \cup {items[k].provider}
                     ELSE found)

(* ------------------------- the rendering engine ------------------------ *)
\* What the engine serves.  The document of a target and the text of a script
\* are fixed by their URL; whether a call succeeds is not.
RawA == <<"a">>
RawHttpsA == Https \o <<"a">>
RawB == <<"b">>
RawUrls == {RawA, RawHttpsA, RawB}

PageText(u) ==
    IF u = Https \o <<"a">> THEN <<"D", "U", "O">> ELSE <<"p">>

AllScripts == [k \in 1..(MaxScripts + 1) |-> <<"s", "/", IF k = 1 THEN "1" ELSE IF k = 2 THEN "2" ELSE "8">>]

ScriptText(js_url) ==
    IF js_url = AllScripts[1] THEN <<"o", "k", "t", "a">>
    ELSE IF js_url = AllScripts[2] THEN <<"O", "t", "p">>
    ELSE <<"b">>

\* the lists page.evaluate can return in get_js_urls
ScriptLists == {SubSeq(AllScripts, 1, n) : n \in 0..MaxScripts}

ResponseStatus == 200

(* ------------------------------- state --------------------------------- *)
VARIABLES
    urls,               \* main's argument: the input list, as given
    output_format,      \* main's argument: "text" or "json"
    verbose,            \* main's argument
    mainpc,             \* where main() is
    playwright,         \* the driver behind async_playwright(): "off", "running", "stopped"
    browser,            \* the shared browser: "none", "running", "closed"
    progress,           \* the Progress task: [total, completed]
    results,            \* main's results list
    report,             \* what was printed: [kind, entries]
    pc,                 \* per session: the await it is suspended at, or how it ended
    url,                \* per session: process_url's url, normalised at line 58
    context,            \* per session: the local context: "unbound", "open", "closed"
    detected_providers, \* per session
    debug_info,         \* per session: [js_urls, errors, status, headers]
    js_urls,            \* per session: the list get_js_urls returned
    js_idx,             \* per session: position of the for loop in js_urls
    exc,                \* per session: the exception process_url ended with, or "none"
    ops,                \* per session: the engine calls awaited so far, with their result
    finished_order,     \* history: the sessions that returned, in the order they did
    cli,                \* cli(): its options, where it is, and what it did
    fn                  \* a single call of a pure function: its arguments and results

mainvars == <<urls, output_format, verbose, mainpc, playwright, browser, results, report>>
sessvars == <<pc, url, context, detected_providers, debug_info, js_urls, js_idx, exc, ops>>
scanvars == <<urls, output_format, verbose, mainpc, playwright, browser, progress, results,
              report, pc, url, context, detected_providers, debug_info, js_urls, js_idx,
              exc, ops, finished_order>>
vars == <<scanvars, cli, fn>>

Sessions == DOMAIN urls

\* the awaits of process_url
Awaiting == {"new_context", "new_page", "goto", "content", "get_js_urls", "fetch", "close"}
\* a session that is over: it returned its tuple, raised, or was cancelled
Finished == {"returned", "raised", "cancelled"}

\* cli() passes a non-empty list (line 164)
InputLists == UNION {[1..n -> RawUrls] : n \in 1..MaxUrls}

\* cli() has called asyncio.run(main(urls, output, verbose)) at line 168
CliInMain == [pc |-> "main"]

\* no pure function is under test
FnIdle == [name |-> "none"]

\* the state main() starts in, given its three arguments
MainStart(list, fmt, v) ==
    /\ urls = list
    /\ output_format = fmt
    /\ verbose = v
    /\ mainpc = "launch"
    /\ playwright = "running"
    /\ browser = "none"
    /\ progress = [total |-> 0, completed |-> 0]
    /\ results = <<>>
    /\ report = [kind |-> "none", entries |-> <<>>]
    /\ pc = [i \in DOMAIN list |-> "created"]
    /\ url = [i \in DOMAIN list |-> list[i]]
    /\ context = [i \in DOMAIN list |-> "unbound"]
    /\ detected_providers = [i \in DOMAIN list |-> {}]
    /\ debug_info = [i \in DOMAIN list |->
                        [js_urls |-> <<>>, errors |-> <<>>, status |-> "absent", headers |-> "absent"]]
    /\ js_urls = [i \in DOMAIN list |-> <<>>]
    /\ js_idx = [i \in DOMAIN list |-> 0]
    /\ exc = [i \in DOMAIN list |-> "none"]
    /\ ops = [i \in DOMAIN list |-> <<>>]
    /\ finished_order = <<>>

Init ==
    /\ cli = CliInMain
    /\ fn = FnIdle
    /\ \E list \in InputLists : \E fmt \in {"text", "json"} : \E v \in BOOLEAN :
          MainStart(list, fmt, v)

(* ------------------------------ process_url ---------------------------- *)
Call(op, arg, res) == [op |-> op, arg |-> arg, res |-> res]

\* as ErrorEntry, without the `except PlaywrightTimeoutError` clause: a
\* timeout falls into the general handler
ErrorEntry_NoTimeoutClause(kind, u) == <<"Error processing", u, "E">>

\* the string appended by the two outer handlers (lines 86 and 89)
ErrorEntry(kind, u) ==
    IF kind = "timeout"
    THEN <<"Timeout error while processing", u>>
    ELSE <<"Error processing", u, "E">>

\* the string appended by the inner handler (line 82)
FetchErrorEntry(js_url) == <<"Error fetching", js_url, "E">>

\* as FinallyPc, with the close at the end of the try block instead of in a
\* finally block: a handler runs on to the return
FinallyPc_NoFinally(ctx) == "returned"

\* the finally block starts with `await context.close()`: with context never
\* assigned, evaluating the name raises UnboundLocalError and the coroutine ends
FinallyPc(ctx) == IF ctx = "unbound" THEN "raised" ELSE "close"
FinallyExc(ctx) == IF ctx = "unbound" THEN "UnboundLocalError" ELSE "none"

\* lines 55-61: the coroutine starts, normalises its url and awaits new_context
Start(i) ==
    /\ mainpc \in {"gather", "aborted"}
    /\ pc[i] = "created"
    /\ url' = [url EXCEPT ![i] = ensure_url_scheme(urls[i])]
    /\ pc' = [pc EXCEPT ![i] = "new_context"]
    /\ UNCHANGED <<mainvars, progress, context, detected_providers, debug_info,
                   js_urls, js_idx, exc, ops>>

\* as Fail, with detected_providers re-initialised in the handler
Fail_DropsProviders(i, op, arg, kind) ==
    /\ ops' = [ops EXCEPT ![i] = Append(@, Call(op, arg, kind))]
    /\ debug_info' = [debug_info EXCEPT ![i].errors = Append(@, ErrorEntry(kind, url[i]))]
    /\ detected_providers' = [detected_providers EXCEPT ![i] = {}]
    /\ pc' = [pc EXCEPT ![i] = FinallyPc(context[i])]
    /\ exc' = [exc EXCEPT ![i] = FinallyExc(context[i])]
    /\ UNCHANGED <<mainvars, progress, url, context, js_urls, js_idx>>

\* an awaited call of the outer try raises: lines 84-90 record it and run on
\* to the finally block
Fail(i, op, arg, kind) ==
    /\ ops' = [ops EXCEPT ![i] = Append(@, Call(op, arg, kind))]
    /\ debug_info' = [debug_info EXCEPT ![i].errors = Append(@, ErrorEntry(kind, url[i]))]
    /\ pc' = [pc EXCEPT ![i] = FinallyPc(context[i])]
    /\ exc' = [exc EXCEPT ![i] = FinallyExc(context[i])]
    /\ UNCHANGED <<mainvars, progress, url, context, detected_providers, js_urls, js_idx>>

\* line 61
NewContext(i) ==
    /\ pc[i] = "new_context"
    /\ \/ /\ context' = [context EXCEPT ![i] = "open"]
          /\ ops' = [ops EXCEPT ![i] = Append(@, Call("new_context", <<>>, "ok"))]
          /\ pc' = [pc EXCEPT ![i] = "new_page"]
          /\ UNCHANGED <<mainvars, progress, url, detected_providers, debug_info,
                         js_urls, js_idx, exc>>
       \/ Fail(i, "new_context", <<>>, "error")

\* line 62
NewPage(i) ==
    /\ pc[i] = "new_page"
    /\ \/ /\ ops' = [ops EXCEPT ![i] = Append(@, Call("new_page", <<>>, "ok"))]
          /\ pc' = [pc EXCEPT ![i] = "goto"]
          /\ UNCHANGED <<mainvars, progress, url, context, detected_providers,
                         debug_info, js_urls, js_idx, exc>>
       \/ Fail(i, "new_page", <<>>, "error")

\* lines 63-69: navigation; on success the status and headers are kept in
\* verbose mode and the document is requested
Goto(i) ==
    /\ pc[i] = "goto"
    /\ \/ /\ ops' = [ops EXCEPT ![i] = Append(@, Call("goto", url[i], "ok"))]
          /\ debug_info' = IF verbose
                           THEN [debug_info EXCEPT ![i].status = ResponseStatus,
                                                   ![i].headers = "headers"]
                           ELSE debug_info
          /\ pc' = [pc EXCEPT ![i] = "content"]
          /\ UNCHANGED <<mainvars, progress, url, context, detected_providers,
                         js_urls, js_idx, exc>>
       \/ \E kind \in {"timeout", "error"} : Fail(i, "goto", url[i], kind)

\* lines 69-72: the document arrives and is analysed; the scripts are requested
Content(i) ==
    /\ pc[i] = "content"
    /\ \/ /\ ops' = [ops EXCEPT ![i] = Append(@, Call("content", url[i], "ok"))]
          /\ detected_providers' =
                [detected_providers EXCEPT ![i] = @ \cup analyze_content(PageText(url[i]), url[i])]
          /\ pc' = [pc EXCEPT ![i] = "get_js_urls"]
          /\ UNCHANGED <<mainvars, progress, url, context, debug_info, js_urls, js_idx, exc>>
       \/ Fail(i, "content", url[i], "error")

\* where the for loop of line 73 goes once it has dealt with position k
LoopPc(list, k) == IF k < Len(list) THEN "fetch" ELSE "close"

\* lines 72-75: the script list arrives; the loop awaits the first fetch, or
\* with no script the try block ends and the finally block awaits close
GetJsUrls(i) ==
    /\ pc[i] = "get_js_urls"
    /\ \/ \E list \in ScriptLists :
            /\ ops' = [ops EXCEPT ![i] = Append(@, Call("get_js_urls", list, "ok"))]
            /\ js_urls' = [js_urls EXCEPT ![i] = list]
            /\ js_idx' = [js_idx EXCEPT ![i] = IF list = <<>> THEN 0 ELSE 1]
            /\ pc' = [pc EXCEPT ![i] = LoopPc(list, 0)]
            /\ UNCHANGED <<mainvars, progress, url, context, detected_providers,
                           debug_info, exc>>
       \/ Fail(i, "get_js_urls", <<>>, "error")

\* as FetchOk, with detected_providers one module-level set shared by every
\* coroutine instead of a local
FetchOk_Shared(i, js_url) ==
    /\ detected_providers' =
          [j \in Sessions |->
              detected_providers[j] \cup analyze_content(ScriptText(js_url), js_url)]
    /\ debug_info' = IF verbose
                     THEN [debug_info EXCEPT ![i].js_urls = Append(@, js_url)]
                     ELSE debug_info

\* lines 76-78: a script's text arrived
FetchOk(i, js_url) ==
    /\ detected_providers' =
          [detected_providers EXCEPT ![i] = @ \cup analyze_content(ScriptText(js_url), js_url)]
    /\ debug_info' = IF verbose
                     THEN [debug_info EXCEPT ![i].js_urls = Append(@, js_url)]
                     ELSE debug_info

\* lines 79-82: the inner handler
FetchFailed(i, js_url) ==
    /\ debug_info' = IF verbose
                     THEN [debug_info EXCEPT ![i].errors = Append(@, FetchErrorEntry(js_url))]
                     ELSE debug_info
    /\ UNCHANGED detected_providers

\* as AfterFetchFailedPc, with the handler around the loop instead of inside
\* it: the first failing fetch ends the loop
AfterFetchFailedPc_Break(list, k) == "close"

\* where the loop goes after the inner handler ran at position k
AfterFetchFailedPc(list, k) == LoopPc(list, k)

\* lines 73-82: one iteration of the loop completes
Fetch(i) ==
    /\ pc[i] = "fetch"
    /\ LET js_url == js_urls[i][js_idx[i]] IN
       \/ /\ ops' = [ops EXCEPT ![i] = Append(@, Call("fetch", js_url, "ok"))]
          /\ FetchOk(i, js_url)
          /\ pc' = [pc EXCEPT ![i] = LoopPc(js_urls[i], js_idx[i])]
       \/ /\ ops' = [ops EXCEPT ![i] = Append(@, Call("fetch", js_url, "error"))]
          /\ FetchFailed(i, js_url)
          /\ pc' = [pc EXCEPT ![i] = AfterFetchFailedPc(js_urls[i], js_idx[i])]
    /\ js_idx' = [js_idx EXCEPT ![i] = IF pc'[i] = "fetch" THEN @ + 1 ELSE @]
    /\ UNCHANGED <<mainvars, progress, url, context, js_urls, exc>>

\* lines 91-94: close resolves, the progress bar advances and the tuple is
\* returned; or close raises and the exception leaves process_url
Close(i) ==
    /\ pc[i] = "close"
    /\ \/ /\ ops' = [ops EXCEPT ![i] = Append(@, Call("close", <<>>, "ok"))]
          /\ context' = [context EXCEPT ![i] = "closed"]
          /\ progress' = [progress EXCEPT !.completed = @ + 1]
          /\ pc' = [pc EXCEPT ![i] = "returned"]
          /\ UNCHANGED exc
       \/ /\ ops' = [ops EXCEPT ![i] = Append(@, Call("close", <<>>, "error"))]
          /\ pc' = [pc EXCEPT ![i] = "raised"]
          /\ exc' = [exc EXCEPT ![i] = "Error"]
          /\ UNCHANGED <<context, progress>>
    /\ UNCHANGED <<mainvars, url, detected_providers, debug_info, js_urls, js_idx>>

\* the tuple of line 94
Outcome(i) ==
    [url |-> url[i], providers |-> detected_providers[i], debug_info |-> debug_info[i]]

(* --------------------------------- main -------------------------------- *)
\* lines 98-99: the driver is up and chromium is launched
Launch ==
    /\ mainpc = "launch"
    /\ browser' = "running"
    /\ mainpc' = "dispatch"
    /\ UNCHANGED <<urls, output_format, verbose, playwright, progress, results, report, sessvars>>

\* lines 101-104: the progress task is sized, one coroutine per input URL is
\* handed to gather, and main waits
Dispatch ==
    /\ mainpc = "dispatch"
    /\ progress' = [total |-> Len(urls), completed |-> 0]
    /\ mainpc' = "gather"
    /\ UNCHANGED <<urls, output_format, verbose, playwright, browser, results, report, sessvars>>

\* as GatherReturn, waiting for the first coroutine only
\* (asyncio.wait with FIRST_COMPLETED)
GatherReturn_FirstCompleted ==
    /\ mainpc = "gather"
    /\ \E i \in Sessions : pc[i] = "returned"
    /\ results' = [i \in Sessions |-> Outcome(i)]
    /\ mainpc' = "browser_close"
    /\ UNCHANGED <<urls, output_format, verbose, playwright, browser, progress, report, sessvars>>

\* as GatherReturn, collecting the tuples as they complete
\* (asyncio.as_completed)
GatherReturn_CompletionOrder ==
    /\ mainpc = "gather"
    /\ \A i \in Sessions : pc[i] = "returned"
    /\ results' = [k \in Sessions |-> Outcome(finished_order[k])]
    /\ mainpc' = "browser_close"
    /\ UNCHANGED <<urls, output_format, verbose, playwright, browser, progress, report, sessvars>>

\* line 104: every coroutine returned; gather hands back their tuples in the
\* order of the argument list
GatherReturn ==
    /\ mainpc = "gather"
    /\ \A i \in Sessions : pc[i] = "returned"
    /\ results' = [i \in Sessions |-> Outcome(i)]
    /\ mainpc' = "browser_close"
    /\ UNCHANGED <<urls, output_format, verbose, playwright, browser, progress, report, sessvars>>

\* line 104, gather without return_exceptions: the first exception of a
\* coroutine is raised in main at once; it leaves both with blocks (the exit
\* of async_playwright stops the driver and its browser) and main ends with
\* the exception, skipping lines 106-137
GatherRaise ==
    /\ mainpc = "gather"
    /\ \E i \in Sessions : pc[i] = "raised"
    /\ mainpc' = "aborted"
    /\ playwright' = "stopped"
    /\ UNCHANGED <<urls, output_format, verbose, browser, progress, results, report, sessvars>>

\* the call a suspended session is waiting for
Awaited(i) ==
    CASE pc[i] = "goto" -> Call("goto", url[i], "cancelled")
      [] pc[i] = "content" -> Call("content", url[i], "cancelled")
      [] pc[i] = "fetch" -> Call("fetch", js_urls[i][js_idx[i]], "cancelled")
      [] OTHER -> Call(pc[i], <<>>, "cancelled")

\* line 168: asyncio.run ends with main and cancels the tasks still pending.
\* CancelledError is raised at the await the task is suspended at and passes
\* both handlers (it is no Exception); the finally block still runs.
Cancel(i) ==
    /\ mainpc = "aborted"
    /\ pc[i] \in {"created"} \cup Awaiting
    /\ ops' = [ops EXCEPT ![i] = IF pc[i] = "created" THEN @ ELSE Append(@, Awaited(i))]
    /\ pc' = [pc EXCEPT ![i] =
                 IF pc[i] \in {"created", "close"} THEN "cancelled"
                 ELSE IF FinallyPc(context[i]) = "close" THEN "close_cancelled"
                 ELSE "raised"]
    /\ exc' = [exc EXCEPT ![i] =
                 IF pc[i] \in {"created", "close"} THEN "CancelledError"
                 ELSE FinallyExc(context[i])]
    /\ UNCHANGED <<mainvars, progress, url, context, detected_providers, debug_info,
                   js_urls, js_idx>>

\* lines 91-92 in a cancelled session: close resolves, the progress bar
\* advances and CancelledError ends the coroutine; or close raises
CloseCancelled(i) ==
    /\ pc[i] = "close_cancelled"
    /\ \/ /\ ops' = [ops EXCEPT ![i] = Append(@, Call("close", <<>>, "ok"))]
          /\ context' = [context EXCEPT ![i] = "closed"]
          /\ progress' = [progress EXCEPT !.completed = @ + 1]
          /\ pc' = [pc EXCEPT ![i] = "cancelled"]
          /\ exc' = [exc EXCEPT ![i] = "CancelledError"]
       \/ /\ ops' = [ops EXCEPT ![i] = Append(@, Call("close", <<>>, "error"))]
          /\ pc' = [pc EXCEPT ![i] = "raised"]
          /\ exc' = [exc EXCEPT ![i] = "Error"]
          /\ UNCHANGED <<context, progress>>
    /\ UNCHANGED <<mainvars, url, detected_providers, debug_info, js_urls, js_idx>>

\* line 106, then the exit of async_playwright
BrowserClose ==
    /\ mainpc = "browser_close"
    /\ browser' = "closed"
    /\ playwright' = "stopped"
    /\ mainpc' = "report"
    /\ UNCHANGED <<urls, output_format, verbose, progress, results, report, sessvars>>

\* line 109: the dict comprehension; a later tuple with the same url replaces
\* the earlier one
RECURSIVE JsonResults(_, _)
JsonResults(res, n) ==
    IF n = 0 THEN <<>>
    ELSE LET d == JsonResults(res, n - 1)
             r == res[n]
         IN [k \in DOMAIN d \cup {r.url} |->
                IF k = r.url
                THEN [providers |-> r.providers, debug_info |-> r.debug_info]
                ELSE d[k]]

\* line 118
Status(info) == IF info.errors = <<>> THEN "Success" ELSE "Failed"

\* lines 117-119: one table row per tuple
TableRows(res) ==
    [n \in DOMAIN res |->
        [url |-> res[n].url,
         providers |-> IF res[n].providers = {} THEN "None" ELSE res[n].providers,
         status |-> Status(res[n].debug_info)]]

\* lines 108-121
Report ==
    /\ mainpc = "report"
    /\ report' = IF output_format = "json"
                 THEN [kind |-> "json", entries |-> JsonResults(results, Len(results))]
                 ELSE [kind |-> "text", entries |-> TableRows(results)]
    /\ mainpc' = "done"
    /\ UNCHANGED <<urls, output_format, verbose, playwright, browser, progress, results, sessvars>>

\* a step of the scan: A, with the history of returns kept
Step(A) ==
    /\ A
    /\ finished_order' =
          IF \E i \in Sessions : pc[i] # "returned" /\ pc'[i] = "returned"
          THEN Append(finished_order,
                      CHOOSE i \in Sessions : pc[i] # "returned" /\ pc'[i] = "returned")
          ELSE finished_order
    /\ UNCHANGED <<cli, fn>>

Next ==
    \/ Step(Launch)
    \/ Step(Dispatch)
    \/ Step(GatherReturn)
    \/ Step(GatherRaise)
    \/ Step(BrowserClose)
    \/ Step(Report)
    \/ \E i \in Sessions : Step(Start(i))
    \/ \E i \in Sessions : Step(NewContext(i))
    \/ \E i \in Sessions : Step(NewPage(i))
    \/ \E i \in Sessions : Step(Goto(i))
    \/ \E i \in Sessions : Step(Content(i))
    \/ \E i \in Sessions : Step(GetJsUrls(i))
    \/ \E i \in Sessions : Step(Fetch(i))
    \/ \E i \in Sessions : Step(Close(i))
    \/ \E i \in Sessions : Step(Cancel(i))
    \/ \E i \in Sessions : Step(CloseCancelled(i))

Spec == Init /\ [][Next]_vars

(* ------------------- what a session's own calls determine -------------- *)
\* Replaying the engine results a session saw, in order, gives the providers
\* and the debug_info it should hold whatever the other sessions did.
HasCall(log, op, res) == \E k \in 1..Len(log) : log[k].op = op /\ log[k].res = res

FailedCalls(log) == {k \in 1..Len(log) : log[k].res \in {"error", "timeout"}}

RECURSIVE ReplayProviders(_, _, _)
ReplayProviders(log, n, u) ==
    IF n = 0 THEN {}
    ELSE ReplayProviders(log, n - 1, u) \cup
         (IF log[n].res # "ok" THEN {}
          ELSE IF log[n].op = "content" THEN analyze_content(PageText(u), u)
          ELSE IF log[n].op = "fetch" THEN analyze_content(ScriptText(log[n].arg), log[n].arg)
          ELSE {})

RECURSIVE ReplayErrors(_, _, _, _)
ReplayErrors(log, n, u, v) ==
    IF n = 0 THEN <<>>
    ELSE LET before == ReplayErrors(log, n - 1, u, v)
             c == log[n]
         IN IF c.res \notin {"error", "timeout"} \/ c.op = "close" THEN before
            ELSE IF c.op = "fetch"
                 THEN (IF v THEN Append(before, <<"Error fetching", c.arg, "E">>) ELSE before)
            ELSE IF c.res = "timeout"
                 THEN Append(before, <<"Timeout error while processing", u>>)
            ELSE Append(before, <<"Error processing", u, "E">>)

RECURSIVE ReplayJsUrls(_, _)
ReplayJsUrls(log, n) ==
    IF n = 0 THEN <<>>
    ELSE IF log[n].op = "fetch" /\ log[n].res = "ok"
         THEN Append(ReplayJsUrls(log, n - 1), log[n].arg)
         ELSE ReplayJsUrls(log, n - 1)

\* the tuple the session's calls determine when main's verbose is v
ReplayOutcomeWith(i, v) ==
    LET log == ops[i]
        u == ensure_url_scheme(urls[i])
        shown == v /\ HasCall(log, "goto", "ok")
    IN [url |-> u,
        providers |-> ReplayProviders(log, Len(log), u),
        debug_info |->
            [js_urls |-> IF v THEN ReplayJsUrls(log, Len(log)) ELSE <<>>,
             errors |-> ReplayErrors(log, Len(log), u, v),
             status |-> IF shown THEN 200 ELSE "absent",
             headers |-> IF shown THEN "headers" ELSE "absent"]]

ReplayOutcome(i) == ReplayOutcomeWith(i, verbose)

\* the tuple a session returns is what its own calls determine
SessionsIndependent ==
    \A i \in Sessions : pc[i] = "returned" => Outcome(i) = ReplayOutcome(i)

(* ------------------------------- claims -------------------------------- *)
Range(f) == {f[k] : k \in DOMAIN f}

\* CancelledError was raised in the session
WasCancelled(i) == \E k \in DOMAIN ops[i] : ops[i][k].res = "cancelled"

\* C1: whatever engine call of its session fails, process_url ends by
\* returning its tuple, with the failure in debug_info's errors; it never
\* ends with an exception.
C1_AlwaysReturnsOutcome ==
    \A i \in Sessions :
        (FailedCalls(ops[i]) # {} /\ ~WasCancelled(i) /\ pc[i] \in {"returned", "raised"})
        => (pc[i] = "returned" /\ debug_info[i].errors # <<>>)

\* C2: a failure in one session, of any kind, never aborts the scan: main is
\* never ended by a session's exception, no session is cancelled, and the
\* report holds for every target the tuple its own calls determine.
C2_FailureNeverAbortsScan ==
    (\E i \in Sessions : FailedCalls(ops[i]) # {})
    => /\ mainpc # "aborted"
       /\ \A j \in Sessions : pc[j] # "cancelled"
       /\ mainpc = "done" => \A j \in Sessions : results[j] = ReplayOutcome(j)

\* C3: the printed report has as many entries as the input list has URLs, in
\* text and in JSON mode, duplicates included.
C3_OneEntryPerInput ==
    mainpc = "done" => Cardinality(DOMAIN report.entries) = Len(urls)

CountIn(seq, x) == Cardinality({k \in DOMAIN seq : seq[k] = x})

\* C4: a session that loaded its page and returns has exactly one errors
\* entry for every script whose fetch failed, verbose or not.
C4_FetchErrorAlwaysRecorded ==
    \A i \in Sessions :
        pc[i] = "returned" =>
            \A k \in DOMAIN ops[i] :
                (ops[i][k].op = "fetch" /\ ops[i][k].res = "error")
                => CountIn(debug_info[i].errors, FetchErrorEntry(ops[i][k].arg)) = 1

\* the script URLs a session asked the engine to fetch, in order
FetchedScripts(log) ==
    LET fetches == SelectSeq(log, LAMBDA c : c.op = "fetch")
    IN [k \in DOMAIN fetches |-> fetches[k].arg]

OkScripts(log) == {c.arg : c \in {d \in Range(log) : d.op = "fetch" /\ d.res = "ok"}}

\* the session left its try block on its own (it was not cancelled)
LeftLoop(i) == pc[i] \in {"close", "returned", "raised"} /\ ~WasCancelled(i)

\* C5: after a failing script fetch the loop goes on: once the session is
\* past the loop, every script URL of the list was fetched, in order, and
\* detected_providers is the union of what the page content and every
\* successfully fetched script matched.
C5_FetchFailureDoesNotAbort ==
    \A i \in Sessions :
        (LeftLoop(i) /\ HasCall(ops[i], "fetch", "error"))
        => /\ FetchedScripts(ops[i]) = js_urls[i]
           /\ detected_providers[i] =
                 analyze_content(PageText(url[i]), url[i]) \cup
                 UNION {analyze_content(ScriptText(s), s) : s \in OkScripts(ops[i])}

\* C5 witness: a session returned after its first fetch failed and its
\* second succeeded, holding the provider only the second script shows.
C5_Witness ==
    \E i \in Sessions :
        /\ pc[i] = "returned"
        /\ Len(js_urls[i]) = 2
        /\ \E k \in DOMAIN ops[i] :
              /\ ops[i][k] = Call("fetch", js_urls[i][1], "error")
              /\ k < Len(ops[i])
              /\ ops[i][k + 1] = Call("fetch", js_urls[i][2], "ok")
        /\ "Otp" \in detected_providers[i]
        /\ "Okta" \notin detected_providers[i]

NavTimedOut(i) == HasCall(ops[i], "goto", "timeout")

\* C6: once a session's navigation timed out it makes no engine call but
\* close, holds no provider and a timeout entry in errors, and every other
\* session that returns holds the tuple its own calls determine.
C6_NavigationTimeout ==
    \A i \in Sessions :
        NavTimedOut(i) =>
            /\ \A k \in DOMAIN ops[i] : \A m \in DOMAIN ops[i] :
                  (ops[i][k].op = "goto" /\ m > k) => ops[i][m].op = "close"
            /\ pc[i] \in {"close", "close_cancelled"} \cup Finished
            /\ detected_providers[i] = {}
            /\ <<"Timeout error while processing", url[i]>> \in Range(debug_info[i].errors)
            /\ \A j \in Sessions \ {i} : pc[j] = "returned" => Outcome(j) = ReplayOutcome(j)

\* C6 witness: a finished run in which one session timed out and another
\* found a provider.
C6_Witness ==
    /\ mainpc = "done"
    /\ \E i \in Sessions : \E j \in Sessions \ {i} :
          /\ NavTimedOut(i)
          /\ results[i].providers = {}
          /\ results[j].providers # {}
          /\ results[j].debug_info.errors = <<>>

AllFinished == mainpc \notin {"launch", "dispatch"} /\ \A i \in Sessions : pc[i] \in Finished

\* C7: the progress task never exceeds its total, and once every session is
\* over, however it ended, it has advanced once per input URL.
C7_ProgressReachesTotal ==
    /\ progress.completed <= progress.total
    /\ AllFinished => progress.completed = Len(urls)

ContextAcquired(i) == HasCall(ops[i], "new_context", "ok")

\* C8: a session that acquired a context and is over, however it ended, has
\* called close on it, and the context is closed unless that very call
\* raised or was cancelled.
C8_ContextReleased ==
    \A i \in Sessions :
        (pc[i] \in Finished /\ ContextAcquired(i))
        => /\ \E k \in DOMAIN ops[i] : ops[i][k].op = "close"
           /\ (pc[i] = "returned" \/ HasCall(ops[i], "close", "ok")) => context[i] = "closed"

\* C8 witness: sessions over after a navigation timeout, a navigation error
\* and a failed script fetch, each with its context closed.
C8_Witness ==
    \E i \in Sessions : \E j \in Sessions :
        /\ pc[i] = "returned" /\ pc[j] = "returned"
        /\ context[i] = "closed" /\ context[j] = "closed"
        /\ (NavTimedOut(i) \/ HasCall(ops[i], "goto", "error"))
        /\ HasCall(ops[j], "fetch", "error")

\* C9: the cleanup never refers to a context that was not assigned.
C9_CleanupGuarded ==
    \A i \in Sessions : exc[i] # "UnboundLocalError"

\* C10: the engine is closed or stopped only when every session is over and
\* no session holds an open context.
C10_EngineClosedLast ==
    (browser = "closed" \/ playwright = "stopped")
    => \A i \in Sessions : pc[i] \in Finished /\ context[i] # "open"

\* C11: the orchestrator never cancels a session: no session has
\* CancelledError raised in it, and none ends cancelled before it started.
C11_NoSessionCancelled ==
    \A i \in Sessions : ~WasCancelled(i) /\ exc[i] # "CancelledError"

\* a call of the outer try block raised something other than a timeout
OuterFailure(i) ==
    \E k \in DOMAIN ops[i] :
        /\ ops[i][k].res = "error"
        /\ ops[i][k].op \in {"new_context", "new_page", "goto", "content", "get_js_urls"}

\* C15: after a non-timeout failure in the try block the session holds
\* exactly one error, for that failure, and the providers found before it
\* (those of the page if the page was analysed, none otherwise); with its
\* context acquired it goes on to close and, unless cancelled or failed by
\* close itself, returns.
C15_PartialProvidersKept ==
    \A i \in Sessions :
        OuterFailure(i) =>
            /\ debug_info[i].errors = << <<"Error processing", url[i], "E">> >>
            /\ detected_providers[i] =
                  IF HasCall(ops[i], "content", "ok")
                  THEN analyze_content(PageText(url[i]), url[i])
                  ELSE {}
            /\ (ContextAcquired(i) /\ ~WasCancelled(i) /\ ~HasCall(ops[i], "close", "error"))
               => pc[i] \in {"close", "returned"}

\* C15 witness: a session returned after its script enumeration failed,
\* with the provider of its page and one error.
C15_Witness ==
    \E i \in Sessions :
        /\ pc[i] = "returned"
        /\ HasCall(ops[i], "get_js_urls", "error")
        /\ detected_providers[i] = {"Duo"}
        /\ Len(debug_info[i].errors) = 1

\* C16: the context, detected_providers and debug_info of a session change
\* only in a step in which a call awaited by that very session resolves.
C16_SessionsIsolated ==
    [][\A j \in Sessions :
          (context'[j] # context[j] \/ detected_providers'[j] # detected_providers[j]
              \/ debug_info'[j].errors # debug_info[j].errors
              \/ debug_info'[j].js_urls # debug_info[j].js_urls
              \/ debug_info'[j].headers # debug_info[j].headers)
          => /\ pc[j] \in Awaiting \cup {"close_cancelled"}
             /\ Len(ops'[j]) = Len(ops[j]) + 1
             /\ \A i \in Sessions \ {j} : ops'[i] = ops[i]]_vars

\* C16 witness: two sessions hold open contexts at once and different
\* providers.
C16_Witness ==
    \E i \in Sessions : \E j \in Sessions \ {i} :
        /\ context[i] = "open" /\ context[j] = "open"
        /\ detected_providers[i] # {}
        /\ detected_providers[j] = {}
        /\ HasCall(ops[j], "content", "ok")

\* C17: results are collected and a report is printed only when every
\* session has returned.
C17_ReportAfterFanIn ==
    (results # <<>> \/ report.kind # "none" \/ mainpc \in {"browser_close", "report", "done"})
    => \A i \in Sessions : pc[i] = "returned"

\* C17 witness: a report of two sessions, the second of which returned first.
C17_Witness ==
    /\ mainpc = "done"
    /\ report.kind # "none"
    /\ finished_order = <<2, 1>>

\* C18: a run differing only in the verbose flag, with the same engine
\* results, gives every returned session the same providers, the same errors
\* and the same status.
C18_VerboseOnlyAddsDebug ==
    \A i \in Sessions :
        pc[i] = "returned" =>
            LET other == ReplayOutcomeWith(i, ~verbose) IN
            /\ other.providers = detected_providers[i]
            /\ other.debug_info.errors = debug_info[i].errors
            /\ Status(other.debug_info) = Status(debug_info[i])

\* C19: when every session returned, results holds one tuple per input URL,
\* in the order of the input list, each the tuple its own calls determine,
\* whatever the order in which the sessions returned; the table lists them in
\* that order.
C19_ResultsInInputOrder ==
    results # <<>> =>
        /\ DOMAIN results = DOMAIN urls
        /\ \A n \in DOMAIN urls : results[n] = ReplayOutcome(n)
        /\ report.kind = "text" =>
              \A n \in DOMAIN urls :
                  /\ report.entries[n].url = ensure_url_scheme(urls[n])
                  /\ report.entries[n].status = Status(ReplayOutcome(n).debug_info)

\* C19 witness: a table of two different tuples whose sessions returned in
\* the reverse of the input order.
C19_Witness ==
    /\ mainpc = "done"
    /\ report.kind = "text"
    /\ finished_order = <<2, 1>>
    /\ results[1].url # results[2].url
    /\ results[1].providers # results[2].providers

(* ---------------------- the pure functions, called alone --------------- *)
\* most calls of one function on the same input
MaxCalls == 2
\* longest URL given to ensure_url_scheme
MaxUrlLen == 3
\* most lines of an input file
MaxLines == 2

\* no scan: main() was not called
ScanIdle ==
    /\ urls = <<>>
    /\ output_format = "text"
    /\ verbose = FALSE
    /\ mainpc = "idle"
    /\ playwright = "off"
    /\ browser = "none"
    /\ progress = [total |-> 0, completed |-> 0]
    /\ results = <<>>
    /\ report = [kind |-> "none", entries |-> <<>>]
    /\ pc = <<>>
    /\ url = <<>>
    /\ context = <<>>
    /\ detected_providers = <<>>
    /\ debug_info = <<>>
    /\ js_urls = <<>>
    /\ js_idx = <<>>
    /\ exc = <<>>
    /\ ops = <<>>
    /\ finished_order = <<>>

Perms(S) == {f \in [1..Cardinality(S) -> S] : \A a \in S : \E k \in DOMAIN f : f[k] = a}
SeqPerms(seq) == {[k \in DOMAIN seq |-> seq[p[k]]] : p \in Perms(DOMAIN seq)}

\* the catalog of providers.yaml in every order of its providers and of each
\* provider's patterns
Catalogs ==
    {[k \in DOMAIN order |-> [provider |-> order[k], patterns |-> pats[order[k]]]] :
        order \in Perms(DOMAIN MFA_PROVIDERS),
        pats \in {f \in [DOMAIN MFA_PROVIDERS ->
                            UNION {SeqPerms(MFA_PROVIDERS[q]) : q \in DOMAIN MFA_PROVIDERS}] :
                    \A q \in DOMAIN MFA_PROVIDERS : f[q] \in SeqPerms(MFA_PROVIDERS[q])}}

AnalyzeTexts ==
    {<<>>, <<"D", "U", "O">>, <<"d", "u", "o", "-", "p">>, <<"a", "o", "k", "T", "A", "b">>,
     <<"k", "t", "a">>, <<"p">>}
AnalyzeUrls == {<<"s", "/", "1">>, <<"o", "t", "p">>, <<"s", "/", "D", "u", "o">>}

InitAnalyze ==
    /\ ScanIdle
    /\ cli = [pc |-> "none"]
    /\ \E items \in Catalogs : \E content \in AnalyzeTexts : \E u \in AnalyzeUrls :
          fn = [name |-> "analyze_content", catalog |-> items, content |-> content,
                url |-> u, results |-> <<>>]

\* lines 45-52, called once more on the same arguments
AnalyzeCall ==
    /\ fn.name = "analyze_content"
    /\ Len(fn.results) < MaxCalls
    /\ fn' = [fn EXCEPT !.results =
                 Append(@, AnalyzeFrom(fn.catalog, 1, fn.content, fn.url, {}))]
    /\ UNCHANGED <<scanvars, cli>>

NextAnalyze == AnalyzeCall

SpecAnalyze == InitAnalyze /\ [][NextAnalyze]_vars

\* a pattern occurs in a text, whatever the case of either
OccursIn(pattern, text) ==
    \E s \in 0..(Len(text) - Len(pattern)) :
        \A k \in 1..Len(pattern) : Lower(text[s + k]) = Lower(pattern[k])

\* C12: analyze_content returns exactly the providers with at least one
\* pattern occurring, case-insensitively, in the text or in the URL: the same
\* set on every call, for every order of the providers and of their patterns,
\* and the set the scan's analyze_content gives.
C12_AnalyzeExact ==
    fn.name = "analyze_content" =>
        \A n \in DOMAIN fn.results :
            /\ fn.results[n] =
                  {q \in DOMAIN MFA_PROVIDERS :
                      \E k \in DOMAIN MFA_PROVIDERS[q] :
                          \/ OccursIn(MFA_PROVIDERS[q][k], fn.content)
                          \/ OccursIn(MFA_PROVIDERS[q][k], fn.url)}
            /\ fn.results[n] = fn.results[1]
            /\ fn.results[n] = analyze_content(fn.content, fn.url)

\* C12 witness: two calls with Otp iterated first and Duo's non-matching
\* pattern listed first; Duo is found by its second pattern in the text, Otp
\* in the URL.
C12_Witness ==
    /\ fn.name = "analyze_content"
    /\ Len(fn.results) = 2
    /\ fn.catalog[1].provider = "Otp"
    /\ \E k \in DOMAIN fn.catalog :
          /\ fn.catalog[k].provider = "Duo"
          /\ fn.catalog[k].patterns[1] = <<"d", "u", "o", "-", "p">>
    /\ fn.content = <<"D", "U", "O">>
    /\ fn.url = <<"o", "t", "p">>
    /\ fn.results[2] = {"Duo", "Otp"}

\* the characters of the URLs given to ensure_url_scheme
UrlAlphabet == {"a", "8", ":", "/"}

\* every text of at most MaxUrlLen characters, and the targets of the scan
UrlInputs == UNION {[1..n -> UrlAlphabet] : n \in 0..MaxUrlLen} \cup RawUrls

InitUrl ==
    /\ ScanIdle
    /\ cli = [pc |-> "none"]
    /\ \E u \in UrlInputs : fn = [name |-> "ensure_url_scheme", arg |-> u, results |-> <<>>]

\* lines 32-36, called on the argument and then on its own result
EnsureCall ==
    /\ fn.name = "ensure_url_scheme"
    /\ Len(fn.results) < MaxCalls
    /\ fn' = [fn EXCEPT !.results =
                 Append(@, ensure_url_scheme(IF fn.results = <<>>
                                             THEN fn.arg
                                             ELSE fn.results[Len(fn.results)]))]
    /\ UNCHANGED <<scanvars, cli>>

NextUrl == EnsureCall

SpecUrl == InitUrl /\ [][NextUrl]_vars

Digits == {"1", "2", "8"}

\* host:port, as in "example.com:8080": a colon followed by digits only
HostPortForm(u) ==
    LET i == FindColon(u) IN
    i > 1 /\ i < Len(u) /\ \A k \in (i + 1)..Len(u) : u[k] \in Digits

\* the text starts with scheme characters, the first a letter, and a colon
SchemePrefix(u) ==
    LET i == FindColon(u) IN
    i > 1 /\ u[1] \in Letters /\ \A k \in 1..(i - 1) : u[k] \in SchemeChars

\* C13: ensure_url_scheme returns "https://" + u for every u without a
\* scheme, host:port forms included, returns u itself when u carries a
\* scheme, and applied to its own result changes nothing.
C13_SchemeEnsured ==
    (fn.name = "ensure_url_scheme" /\ fn.results # <<>>) =>
        /\ fn.results[1] = IF SchemePrefix(fn.arg) /\ ~HostPortForm(fn.arg)
                           THEN fn.arg
                           ELSE Https \o fn.arg
        /\ \A n \in DOMAIN fn.results : fn.results[n] = fn.results[1]

(* ---------------------------------- cli -------------------------------- *)
\* str.strip() of a line: the blanks at both ends go
RECURSIVE Strip(_)
Strip(line) ==
    IF line = <<>> THEN <<>>
    ELSE IF Head(line) = " " THEN Strip(Tail(line))
    ELSE IF line[Len(line)] = " " THEN Strip(SubSeq(line, 1, Len(line) - 1))
    ELSE line

\* the lines an input file can hold
FileLines == {<<"a">>, <<" ", "b", " ">>, <<>>, <<" ">>}

\* the values of --input: absent, a file open() fails on, or a file with its
\* lines
NoInput == [set |-> FALSE, readable |-> FALSE, lines |-> <<>>]
Files ==
    {[set |-> TRUE, readable |-> FALSE, lines |-> <<>>]} \cup
    {[set |-> TRUE, readable |-> TRUE, lines |-> l] :
        l \in UNION {[1..n -> FileLines] : n \in 0..MaxLines}}

\* the values of --url: absent, the empty string, a target
UrlOptions ==
    {[set |-> FALSE, value |-> <<>>], [set |-> TRUE, value |-> <<>>],
     [set |-> TRUE, value |-> RawA]}

\* Python's truth value of the --url option: None and "" are false
Given(opt) == opt.set /\ opt.value # <<>>

\* as CliReadFile, without the `if line.strip()` filter
CliReadFile_KeepsBlank(file) == [k \in DOMAIN file.lines |-> Strip(file.lines[k])]

\* line 156: the stripped lines that are not empty
CliReadFile(file) ==
    SelectSeq([k \in DOMAIN file.lines |-> Strip(file.lines[k])], LAMBDA l : l # <<>>)

\* lines 149-166: the list cli() ends with, the error it logs and whether it
\* opened the input file
CliOutcome(url_opt, input_opt) ==
    IF Given(url_opt)
    THEN [urls |-> <<url_opt.value>>, error |-> "none", file_read |-> FALSE]
    ELSE IF input_opt.set
    THEN IF ~input_opt.readable
         THEN [urls |-> <<>>, error |-> "Unable to read file", file_read |-> FALSE]
         ELSE IF CliReadFile(input_opt) = <<>>
              THEN [urls |-> <<>>, error |-> "No URLs provided.", file_read |-> TRUE]
              ELSE [urls |-> CliReadFile(input_opt), error |-> "none", file_read |-> TRUE]
    ELSE [urls |-> <<>>, error |-> "Please provide either a URL (-u) or an input file (-i).",
          file_read |-> FALSE]

InitCli ==
    /\ ScanIdle
    /\ fn = FnIdle
    /\ \E u \in UrlOptions : \E f \in {NoInput} \cup Files :
       \E fmt \in {"text", "json"} : \E v \in BOOLEAN :
          cli = [pc |-> "cli", url |-> u, input |-> f, output |-> fmt, verbose |-> v,
                 error |-> "none", file_read |-> FALSE]

\* line 168 and lines 96-97: main() is entered with its arguments
RunMain(list, fmt, v) ==
    /\ urls' = list
    /\ output_format' = fmt
    /\ verbose' = v
    /\ mainpc' = "launch"
    /\ playwright' = "running"
    /\ browser' = "none"
    /\ progress' = [total |-> 0, completed |-> 0]
    /\ results' = <<>>
    /\ report' = [kind |-> "none", entries |-> <<>>]
    /\ pc' = [i \in DOMAIN list |-> "created"]
    /\ url' = [i \in DOMAIN list |-> list[i]]
    /\ context' = [i \in DOMAIN list |-> "unbound"]
    /\ detected_providers' = [i \in DOMAIN list |-> {}]
    /\ debug_info' = [i \in DOMAIN list |->
                        [js_urls |-> <<>>, errors |-> <<>>, status |-> "absent", headers |-> "absent"]]
    /\ js_urls' = [i \in DOMAIN list |-> <<>>]
    /\ js_idx' = [i \in DOMAIN list |-> 0]
    /\ exc' = [i \in DOMAIN list |-> "none"]
    /\ ops' = [i \in DOMAIN list |-> <<>>]
    /\ finished_order' = <<>>

\* lines 145-168: cli() logs an error and returns, or runs main
Cli ==
    /\ cli.pc = "cli"
    /\ LET out == CliOutcome(cli.url, cli.input) IN
       IF out.error # "none"
       THEN /\ cli' = [cli EXCEPT !.pc = "returned", !.error = out.error,
                                  !.file_read = out.file_read]
            /\ UNCHANGED scanvars
       ELSE /\ cli' = [cli EXCEPT !.pc = "main", !.file_read = out.file_read]
            /\ RunMain(out.urls, cli.output, cli.verbose)
    /\ UNCHANGED fn

\* cli() and the start of the scan: the launch, the dispatch and the first
\* step of every coroutine
NextCli ==
    \/ Cli
    \/ Step(Launch)
    \/ Step(Dispatch)
    \/ \E i \in Sessions : Step(Start(i))

SpecCli == InitCli /\ [][NextCli]_vars

\* no scan was started: no driver, no browser, no coroutine
NoScan ==
    /\ mainpc = "idle"
    /\ playwright = "off"
    /\ browser = "none"
    /\ urls = <<>>
    /\ pc = <<>>

\* every line of the file is empty or blank
AllBlank(file) ==
    \A k \in DOMAIN file.lines : \A n \in DOMAIN file.lines[k] : file.lines[k][n] = " "

\* C14: once cli() has run: with neither option given, with an input file
\* that cannot be read, or with a file holding no URL, it has logged an error
\* and no scan is ever started; with a URL given, the scan runs on that URL
\* alone and the input file was not opened.
C14_CliErrorsStartNoScan ==
    cli.pc \in {"returned", "main"} =>
        /\ (~Given(cli.url) /\ (~cli.input.set \/ ~cli.input.readable \/ AllBlank(cli.input)))
           => (cli.pc = "returned" /\ cli.error # "none" /\ NoScan)
        /\ Given(cli.url)
           => (cli.pc = "main" /\ urls = <<cli.url.value>> /\ ~cli.file_read /\ cli.error = "none")

\* C14 witness: cli() returned with an error on a readable file of two blank
\* lines.
C14_Witness ==
    /\ cli.pc = "returned"
    /\ cli.error = "No URLs provided."
    /\ ~cli.url.set
    /\ cli.input.set
    /\ cli.input.readable
    /\ Len(cli.input.lines) = 2
    /\ cli.file_read
    /\ NoScan

====
